---- MODULE Spec2Model ----
(***************************************************************************)
(* Model of django-celery-commands: the argument caster, the signature     *)
(* introspector, the startup pass that registers one command per task,     *)
(* the generic celery_tasks command and the generated per-task commands.   *)
(*                                                                         *)
(* Python strings are sequences of one-character strings.  Python values   *)
(* are records with one shape, [kind, s, n, e, b, l], so that any two      *)
(* values can be compared.                                                 *)
(***************************************************************************)
EXTENDS Integers, Sequences, FiniteSets, TLC

VARIABLES phase, tasks, commands, calls, last, cast, sig

vars == <<phase, tasks, commands, calls, last, cast, sig>>

(***************************************************************************)
(* Bounds                                                                  *)
(***************************************************************************)
MaxLen == 3
MaxParams == 2
MaxArgs == 2
MaxKwargs == 2
MaxTasks == 2

(***************************************************************************)
(* Characters and strings                                                  *)
(***************************************************************************)
Ascii ==
    <<" ", "+", ",", "-", ".", "0", "1", "2", "3", "4", "5", "6", "7", "8",
      "9", "<", "=", ">", "A", "B", "E", "F", "I", "L", "N", "O", "R", "S", "T", "U", "Y",
      "_", "a", "b", "c", "d", "e", "f", "i", "k", "l", "m", "n", "o", "r",
      "s", "t", "u", "x", "y", "z">>

Ord(c) == CHOOSE i \in 1..Len(Ascii) : Ascii[i] = c

Digits == <<"0", "1", "2", "3", "4", "5", "6", "7", "8", "9">>

IsDigit(c) == \E i \in 1..10 : Digits[i] = c

DigitVal(c) == (CHOOSE i \in 1..10 : Digits[i] = c) - 1

IsUpper(c) == Ord(c) >= Ord("A") /\ Ord(c) <= Ord("Y")

IsLower(c) == Ord(c) >= Ord("a") /\ Ord(c) <= Ord("z")

IsWordChar(c) == IsDigit(c) \/ IsUpper(c) \/ IsLower(c) \/ c = "_"

IsSpace(c) == c = " "

LowerChar(c) ==
    CASE c = "A" -> "a" [] c = "B" -> "b" [] c = "E" -> "e" [] c = "F" -> "f" [] c = "I" -> "i"
      [] c = "L" -> "l" [] c = "N" -> "n" [] c = "O" -> "o" [] c = "R" -> "r"
      [] c = "S" -> "s" [] c = "T" -> "t" [] c = "U" -> "u" [] c = "Y" -> "y"
      [] OTHER -> c

Lower(s) == [i \in 1..Len(s) |-> LowerChar(s[i])]

RECURSIVE LStrip(_)
LStrip(s) == IF s # <<>> /\ IsSpace(s[1]) THEN LStrip(Tail(s)) ELSE s

RECURSIVE RStrip(_)
RStrip(s) ==
    IF s # <<>> /\ IsSpace(s[Len(s)]) THEN RStrip(SubSeq(s, 1, Len(s) - 1))
    ELSE s

Strip(s) == RStrip(LStrip(s))

\* position of the first occurrence of character c in s, 0 when absent
Find(s, c) ==
    IF \E i \in 1..Len(s) : s[i] = c
    THEN CHOOSE i \in 1..Len(s) : s[i] = c /\ \A j \in 1..(i - 1) : s[j] # c
    ELSE 0

\* str.split(sep): every piece between separators, empty pieces included
RECURSIVE Split(_, _)
Split(s, sep) ==
    LET p == Find(s, sep)
    IN IF p = 0 THEN <<s>>
       ELSE <<SubSeq(s, 1, p - 1)>> \o Split(SubSeq(s, p + 1, Len(s)), sep)

\* str.split(sep, 1): at most one split, at the first separator
SplitOnce(s, sep) ==
    LET p == Find(s, sep)
    IN IF p = 0 THEN <<s>>
       ELSE <<SubSeq(s, 1, p - 1), SubSeq(s, p + 1, Len(s))>>

\* s < t in the code-point order Python compares strings with
RECURSIVE LexLess(_, _)
LexLess(s, t) ==
    IF t = <<>> THEN FALSE
    ELSE IF s = <<>> THEN TRUE
    ELSE IF s[1] # t[1] THEN Ord(s[1]) < Ord(t[1])
    ELSE LexLess(Tail(s), Tail(t))

(***************************************************************************)
(* Python values                                                           *)
(***************************************************************************)
Blank == [kind |-> "none", s |-> <<>>, n |-> 0, e |-> 0, b |-> FALSE, l |-> <<>>]

NoneV == Blank

Empty == [Blank EXCEPT !.kind = "empty"]

StrV(s) == [Blank EXCEPT !.kind = "str", !.s = s]

IntV(n) == [Blank EXCEPT !.kind = "int", !.n = n]

BoolV(b) == [Blank EXCEPT !.kind = "bool", !.b = b]

ListV(l) == [Blank EXCEPT !.kind = "list", !.l = l]

\* a finite float is n * 10^e with n not divisible by 10 (0.0 is n = 0, e = 0)
RECURSIVE FloatV(_, _)
FloatV(n, e) ==
    IF n = 0 THEN [Blank EXCEPT !.kind = "float"]
    ELSE IF n % 10 = 0 THEN FloatV(n \div 10, e + 1)
    ELSE [Blank EXCEPT !.kind = "float", !.n = n, !.e = e]

\* inf, -inf and nan: n is the sign, s the lower-cased name
FloatSpecial(name, sign) == [Blank EXCEPT !.kind = "float", !.s = name, !.n = sign]

CastError == [Blank EXCEPT !.kind = "CastError"]

IsError(v) == v.kind = "CastError"

(***************************************************************************)
(* The builtins int(str) and float(str)                                    *)
(***************************************************************************)
\* digits, with single underscores allowed between two digits
IsDigitGroup(s) ==
    /\ s # <<>>
    /\ IsDigit(s[1])
    /\ IsDigit(s[Len(s)])
    /\ \A i \in 1..Len(s) : IsDigit(s[i]) \/ s[i] = "_"
    /\ \A i \in 1..(Len(s) - 1) : ~(s[i] = "_" /\ s[i + 1] = "_")

RECURSIVE DigitsValue(_)
DigitsValue(s) ==
    IF s = <<>> THEN 0
    ELSE IF s[Len(s)] = "_" THEN DigitsValue(SubSeq(s, 1, Len(s) - 1))
    ELSE 10 * DigitsValue(SubSeq(s, 1, Len(s) - 1)) + DigitVal(s[Len(s)])

NumDigits(s) == Cardinality({i \in 1..Len(s) : IsDigit(s[i])})

HasSign(s) == s # <<>> /\ s[1] \in {"+", "-"}

SignOf(s) == IF s # <<>> /\ s[1] = "-" THEN -1 ELSE 1

Unsigned(s) == IF HasSign(s) THEN Tail(s) ELSE s

\* int(s): ValueError unless s is [ws][sign]digits[ws]
PyInt(s) ==
    IF IsDigitGroup(Unsigned(Strip(s)))
    THEN [ok |-> TRUE, n |-> SignOf(Strip(s)) * DigitsValue(Unsigned(Strip(s)))]
    ELSE [ok |-> FALSE, n |-> 0]

\* a decimal number: integer part, fraction part and exponent part, the
\* value being ipart.fpart * 10^expo
FloatNumber(sign, ipart, fpart, hasExpo, expo) ==
    IF /\ ipart # <<>> \/ fpart # <<>>
       /\ ipart = <<>> \/ IsDigitGroup(ipart)
       /\ fpart = <<>> \/ IsDigitGroup(fpart)
       /\ hasExpo => IsDigitGroup(Unsigned(expo))
    THEN [ok |-> TRUE,
          v |-> FloatV(sign * (DigitsValue(ipart) * (10 ^ NumDigits(fpart))
                               + DigitsValue(fpart)),
                       SignOf(expo) * DigitsValue(Unsigned(expo)) - NumDigits(fpart))]
    ELSE [ok |-> FALSE, v |-> Blank]

Before(s, p) == IF p = 0 THEN s ELSE SubSeq(s, 1, p - 1)

After(s, p) == IF p = 0 THEN <<>> ELSE SubSeq(s, p + 1, Len(s))

FloatMantissa(sign, mant, hasExpo, expo) ==
    FloatNumber(sign, Before(mant, Find(mant, ".")), After(mant, Find(mant, ".")),
                hasExpo, expo)

FloatBody(sign, body) ==
    IF body \in {<<"i", "n", "f">>, <<"i", "n", "f", "i", "n", "i", "t", "y">>}
    THEN [ok |-> TRUE, v |-> FloatSpecial(<<"i", "n", "f">>, sign)]
    ELSE IF body = <<"n", "a", "n">>
    THEN [ok |-> TRUE, v |-> FloatSpecial(<<"n", "a", "n">>, 1)]
    ELSE FloatMantissa(sign, Before(body, Find(body, "e")), Find(body, "e") # 0,
                       After(body, Find(body, "e")))

\* float(s): ValueError unless s is [ws][sign](number | inf | infinity | nan)[ws]
PyFloat(s) == FloatBody(SignOf(Strip(s)), Lower(Unsigned(Strip(s))))

(***************************************************************************)
(* Declared types.  An annotation is a sequence of tags: <<>> is "no type  *)
(* hint", <<"int">> is int, <<"List", "int">> is typing.List[int],         *)
(* <<"list", "int">> is list[int], <<"list">> is a bare list and           *)
(* <<"Union">> stands for Union[...] / Optional[...].                      *)
(***************************************************************************)
NoHint == <<>>

Primitives == {<<"str">>, <<"int">>, <<"float">>, <<"bool">>}

ListHeads == {"list", "List"}

\* typing.get_origin(annotation) == list
OriginIsList(annotation) == annotation # <<>> /\ annotation[1] \in ListHeads

\* typing.get_args(annotation), at most one argument is modelled
TypeArgs(annotation) == IF annotation = <<>> THEN <<>> ELSE Tail(annotation)

TrueTokens == {<<"t", "r", "u", "e">>, <<"1">>, <<"y", "e", "s">>}

FalseTokens == {<<"f", "a", "l", "s", "e">>, <<"0">>, <<"n", "o">>}

(***************************************************************************)
(* Command._cast_value                                                     *)
(***************************************************************************)
CastInt(value) ==
    IF PyInt(value).ok THEN IntV(PyInt(value).n) ELSE CastError

CastFloat(value) ==
    IF PyFloat(value).ok THEN PyFloat(value).v ELSE CastError

CastBoolPassThrough(value) ==
    IF Lower(value) \in TrueTokens THEN BoolV(TRUE)
    ELSE IF Lower(value) \in FalseTokens THEN BoolV(FALSE)
    ELSE StrV(value)

CastBool(value) ==
    IF Lower(value) \in TrueTokens THEN BoolV(TRUE)
    ELSE IF Lower(value) \in FalseTokens THEN BoolV(FALSE)
    ELSE CastError

\* the list a loop of casts returns: any failing element fails the whole cast
AllOrError(casted_items) ==
    IF \E i \in 1..Len(casted_items) : IsError(casted_items[i]) THEN CastError
    ELSE ListV(casted_items)

RECURSIVE CastValue(_, _)

CastItemsNoStrip(items, inner_type) ==
    AllOrError([i \in 1..Len(items) |-> CastValue(items[i], inner_type)])

\* the element loop of the list branch
CastItems(items, inner_type) ==
    AllOrError([i \in 1..Len(items) |-> CastValue(Strip(items[i]), inner_type)])

CastValueStrict(value, annotation) ==
    IF annotation = NoHint THEN StrV(value)
    ELSE IF annotation = <<"str">> THEN StrV(value)
    ELSE IF annotation = <<"int">> THEN CastInt(value)
    ELSE IF annotation = <<"float">> THEN CastFloat(value)
    ELSE IF annotation = <<"bool">> THEN CastBool(value)
    ELSE IF OriginIsList(annotation) /\ TypeArgs(annotation) # <<>>
    THEN CastItems(Split(value, ","), TypeArgs(annotation))
    ELSE CastError

CastValue(value, annotation) ==
    IF annotation = NoHint THEN StrV(value)
    ELSE IF annotation = <<"str">> THEN StrV(value)
    ELSE IF annotation = <<"int">> THEN CastInt(value)
    ELSE IF annotation = <<"float">> THEN CastFloat(value)
    ELSE IF annotation = <<"bool">> THEN CastBool(value)
    ELSE IF OriginIsList(annotation) /\ TypeArgs(annotation) # <<>>
    THEN CastItems(Split(value, ","), TypeArgs(annotation))
    ELSE StrV(value)

(***************************************************************************)
(* Inputs of the caster                                                    *)
(***************************************************************************)
CastAlphabet == {"1", " ", ",", "x", "-"}

RECURSIVE StringsUpTo(_, _)
StringsUpTo(alphabet, n) ==
    IF n = 0 THEN {<<>>}
    ELSE LET shorter == StringsUpTo(alphabet, n - 1)
         IN shorter \cup {Append(s, c) : s \in shorter, c \in alphabet}

SampleRaw ==
    { <<"4", "2">>, <<"3", ".", "1", "4">>, <<"t", "r", "u", "e">>,
      <<"N", "o">>, <<"Y", "E", "S">>, <<"F", "a", "l", "s", "e">>,
      <<"0">>, <<"a", "b", "c">>, <<"m", "a", "y", "b", "e">>,
      <<"1", ",", " ", "2", ",", "3">>, <<"1", "e", "3">>, <<"i", "n", "f">>,
      <<"n", "a", "n">>, <<"1", "_", "0">>, <<"+", "5">>, <<".", "5">>,
      <<"1", ".">>, <<"-", "0", ".", "5", "0">>, <<"t", "r", "u", "e", ",", "n", "o">>,
      <<"1", ".", "5", ",", " ", "2">>, <<"1", "_", "_", "0">>, <<"1", "E", "-", "2">> }

RawValues == SampleRaw \cup StringsUpTo(CastAlphabet, MaxLen)

Annotations ==
    {NoHint} \cup Primitives
      \cup {<<h>> \o t : h \in ListHeads, t \in Primitives}
      \cup {<<"list">>, <<"List">>, <<"Union">>, <<"dict">>,
            <<"List", "Union">>, <<"list", "list", "int">>}

(***************************************************************************)
(* Callables and the signature introspector (discover.py)                  *)
(*                                                                         *)
(* A callable is its parameters in declaration order, each with a name, a  *)
(* declared type (NoHint when unannotated) and a default (Empty stands for *)
(* inspect._empty), and its return annotation.                             *)
(***************************************************************************)
Name_a == <<"a">>
Name_b == <<"b">>
Name_c == <<"c">>
Name_return == <<"r", "e", "t", "u", "r", "n">>

Param(name, annotation, default) ==
    [name |-> name, annotation |-> annotation, default |-> default]

ParamNamed(params, k) ==
    params[CHOOSE i \in 1..Len(params) : params[i].name = k]

HasParam(params, k) == \E i \in 1..Len(params) : params[i].name = k

\* typing.get_type_hints(func): the annotated parameters and, when the
\* callable declares a return type, the key "return"
TypeHints(params, returns) ==
    [k \in {params[i].name : i \in {j \in 1..Len(params) : params[j].annotation # NoHint}}
           \cup (IF returns = NoHint THEN {} ELSE {Name_return}) |->
       IF HasParam(params, k) THEN ParamNamed(params, k).annotation ELSE returns]

\* type_hints.get(key, None)
HintGet(type_hints, key) ==
    IF key \in DOMAIN type_hints THEN type_hints[key] ELSE NoHint

ParamInfoTruthy(param, type_hints) ==
    [name |-> param.name,
     annotation |-> HintGet(type_hints, param.name),
     default |-> IF param.default # Empty THEN param.default ELSE NoneV,
     required |-> param.default \in {Empty, NoneV, IntV(0), StrV(<<>>), BoolV(FALSE)}]

\* one iteration of the loop over signature.parameters
ParamInfo(param, type_hints) ==
    [name |-> param.name,
     annotation |-> HintGet(type_hints, param.name),
     default |-> IF param.default # Empty THEN param.default ELSE NoneV,
     required |-> param.default = Empty]

\* parse_task_signature(task_object); task_object.run exists
ParseTaskSignature(task) ==
    [name |-> task.name,
     func_name |-> task.func_name,
     params |-> [i \in 1..Len(task.params) |->
                   ParamInfo(task.params[i], TypeHints(task.params, task.returns))],
     docstring |-> task.doc]

Task(name, func_name, has_run, params, returns, doc) ==
    [name |-> name, func_name |-> func_name, has_run |-> has_run,
     params |-> params, returns |-> returns, doc |-> doc]

(***************************************************************************)
(* Inputs of the introspector                                              *)
(***************************************************************************)
ParamNames == {Name_a, Name_b, Name_c}

ParamAnnotations == {NoHint, <<"int">>, <<"List", "int">>}

ParamDefaults == {Empty, NoneV, IntV(0), IntV(3), StrV(<<>>), BoolV(FALSE)}

ParamChoices ==
    {Param(n, t, d) : n \in ParamNames, t \in ParamAnnotations, d \in ParamDefaults}

RECURSIVE ParamLists(_)
ParamLists(n) ==
    IF n = 0 THEN {<<>>}
    ELSE LET shorter == ParamLists(n - 1)
         IN shorter \cup
            UNION {{Append(ps, q) : q \in {r \in ParamChoices :
                                             \A i \in 1..Len(ps) : ps[i].name # r.name}}
                   : ps \in shorter}

Name_f == <<"f">>

NoCast == [done |-> FALSE, value |-> <<>>, annotation |-> NoHint, result |-> Blank]

NoSig == [done |-> FALSE, params |-> <<>>, returns |-> NoHint, result |-> <<>>]

NoLast ==
    [op |-> "none", outcome |-> "none", task_name |-> NoneV, args |-> <<>>,
     kwargs |-> <<>>, command |-> <<>>, options |-> <<>>, listing |-> <<>>,
     submitted |-> FALSE, task |-> <<>>, final_args |-> <<>>, final_kwargs |-> <<>>]

(***************************************************************************)
(* The startup pass (apps.py) and the command registrar (_dynamic.py)      *)
(***************************************************************************)
RECURSIVE DropNonWord(_)
DropNonWord(s) ==
    IF s # <<>> /\ ~IsWordChar(s[1]) THEN DropNonWord(Tail(s)) ELSE s

\* _slugify_command_name: re.sub(r'\W+', '_', name)
RECURSIVE SlugifyCommandName(_)
SlugifyCommandName(name) ==
    IF name = <<>> THEN <<>>
    ELSE IF IsWordChar(name[1]) THEN <<name[1]>> \o SlugifyCommandName(Tail(name))
    ELSE <<"_">> \o SlugifyCommandName(DropNonWord(Tail(name)))

\* d[k] = v on a dict
Put(d, k, v) == [x \in DOMAIN d \cup {k} |-> IF x = k THEN v ELSE d[x]]

\* register_command: the entry of the command registry under the slug of
\* command_name, and the generated class with the task_info and task_obj it
\* closes over
RegisterCommand(registry, command_name, task_info, task_obj) ==
    Put(registry, SlugifyCommandName(command_name),
        [task_info |-> task_info, task_obj |-> task_obj])

\* the command name ready() passes to register_command
CommandNameOf(task_info) == task_info.func_name

\* the loop of ready() from the i-th task on; task_object.run of a task
\* without a run attribute raises AttributeError and ends the pass
RECURSIVE ReadyLoop(_, _, _)
ReadyLoop(registry, ts, i) ==
    IF i > Len(ts) THEN [commands |-> registry, ok |-> TRUE]
    ELSE IF ~ts[i].has_run THEN [commands |-> registry, ok |-> FALSE]
    ELSE ReadyLoop(RegisterCommand(registry, CommandNameOf(ParseTaskSignature(ts[i])),
                                   ParseTaskSignature(ts[i]), ts[i].name),
                   ts, i + 1)

(***************************************************************************)
(* The generic command (celery_tasks.py)                                   *)
(***************************************************************************)
TaskNames(ts) == {ts[i].name : i \in 1..Len(ts)}

TaskNamed(ts, name) == (CHOOSE i \in 1..Len(ts) : ts[i].name = name)

\* sorted(names)
RECURSIVE Sorted(_)
Sorted(names) ==
    IF names = {} THEN <<>>
    ELSE LET least == CHOOSE m \in names : \A o \in names \ {m} : LexLess(m, o)
         IN <<least>> \o Sorted(names \ {least})

RECURSIVE InRegistryOrder(_)
InRegistryOrder(ts) ==
    IF ts = <<>> THEN <<>> ELSE <<ts[1].name>> \o InRegistryOrder(Tail(ts))

ListAllTasksUnsorted(ts) == InRegistryOrder(ts)

\* list_all_tasks: the task lines written between the header and the usage
ListAllTasks(ts) == Sorted(TaskNames(ts))

PositionalArgsCastExtra(positional_args_raw, sig_params, type_hints) ==
    [i \in 1..Len(positional_args_raw) |->
       IF sig_params = <<>> THEN StrV(positional_args_raw[i])
       ELSE IF i > Len(sig_params)
       THEN CastValue(positional_args_raw[i],
                      HintGet(type_hints, sig_params[Len(sig_params)].name))
       ELSE CastValue(positional_args_raw[i], HintGet(type_hints, sig_params[i].name))]

\* the loop over the positional values
PositionalArgs(positional_args_raw, sig_params, type_hints) ==
    [i \in 1..Len(positional_args_raw) |->
       IF i > Len(sig_params) THEN StrV(positional_args_raw[i])
       ELSE CastValue(positional_args_raw[i], HintGet(type_hints, sig_params[i].name))]

\* one key=value token: the key and the cast value
KeywordArg(raw_kv, type_hints) ==
    [k |-> SplitOnce(raw_kv, "=")[1],
     v |-> CastValue(SplitOnce(raw_kv, "=")[2],
                     HintGet(type_hints, SplitOnce(raw_kv, "=")[1]))]

\* the loop over the key=value tokens from the i-th on: the first token
\* without '=' or with a value that does not cast ends it
RECURSIVE KeywordArgs(_, _, _, _)
KeywordArgs(kwargs_raw, type_hints, i, final_kwargs) ==
    IF i > Len(kwargs_raw) THEN [outcome |-> "ok", final_kwargs |-> final_kwargs]
    ELSE IF Find(kwargs_raw[i], "=") = 0
    THEN [outcome |-> "FormatError", final_kwargs |-> final_kwargs]
    ELSE IF IsError(KeywordArg(kwargs_raw[i], type_hints).v)
    THEN [outcome |-> "CastError", final_kwargs |-> final_kwargs]
    ELSE KeywordArgs(kwargs_raw, type_hints, i + 1,
                     Put(final_kwargs, KeywordArg(kwargs_raw[i], type_hints).k,
                         KeywordArg(kwargs_raw[i], type_hints).v))

DelayBeforeKeywords(task, final_args, kw) ==
    IF \E i \in 1..Len(final_args) : IsError(final_args[i])
    THEN [NoLast EXCEPT !.outcome = "CastError"]
    ELSE [NoLast EXCEPT !.outcome = kw.outcome, !.submitted = TRUE,
                        !.task = task.name, !.final_args = final_args,
                        !.final_kwargs = kw.final_kwargs]

\* the end of run_task: the call handed to task.delay once both loops are
\* through; a failed cast or a malformed token has raised before it
Delay(task, final_args, kw) ==
    IF \E i \in 1..Len(final_args) : IsError(final_args[i])
    THEN [NoLast EXCEPT !.outcome = "CastError"]
    ELSE IF kw.outcome # "ok"
    THEN [NoLast EXCEPT !.outcome = kw.outcome]
    ELSE [NoLast EXCEPT !.outcome = "ok", !.submitted = TRUE,
                        !.task = task.name, !.final_args = final_args,
                        !.final_kwargs = kw.final_kwargs]

\* run_task on the task found in the registry
RunFound(task, type_hints, positional_args_raw, kwargs_raw) ==
    IF ~task.has_run THEN [NoLast EXCEPT !.outcome = "NotFoundError"]
    ELSE Delay(task,
               PositionalArgs(positional_args_raw, task.params, type_hints),
               KeywordArgs(kwargs_raw, type_hints, 1, <<>>))

\* run_task: the outcome and, when it is "ok", the call handed to task.delay
RunTask(ts, task_name, positional_args_raw, kwargs_raw) ==
    IF task_name \notin TaskNames(ts)
    THEN [NoLast EXCEPT !.outcome = "NotFoundError"]
    ELSE RunFound(ts[TaskNamed(ts, task_name)],
                  TypeHints(ts[TaskNamed(ts, task_name)].params,
                            ts[TaskNamed(ts, task_name)].returns),
                  positional_args_raw, kwargs_raw)

(***************************************************************************)
(* The generated per-task command (_dynamic.py)                            *)
(***************************************************************************)
RECURSIVE IntToStr(_)
IntToStr(n) ==
    IF n < 0 THEN <<"-">> \o IntToStr(-n)
    ELSE IF n < 10 THEN <<Digits[n + 1]>>
    ELSE IntToStr(n \div 10) \o <<Digits[(n % 10) + 1]>>

\* p_type(val): the declared type called on the option value; any
\* exception is reported as a cast failure
Construct(p_type, val) ==
    IF p_type = <<"str">>
    THEN CASE val.kind = "str" -> val
           [] val.kind = "int" -> StrV(IntToStr(val.n))
           [] val.kind = "bool" ->
                StrV(IF val.b THEN <<"T", "r", "u", "e">> ELSE <<"F", "a", "l", "s", "e">>)
           [] OTHER -> CastError
    ELSE IF p_type = <<"int">>
    THEN CASE val.kind = "str" -> CastInt(val.s)
           [] val.kind = "int" -> val
           [] val.kind = "bool" -> IntV(IF val.b THEN 1 ELSE 0)
           [] OTHER -> CastError
    ELSE IF p_type = <<"float">>
    THEN CASE val.kind = "str" -> CastFloat(val.s)
           [] val.kind = "int" -> FloatV(val.n, 0)
           [] val.kind = "bool" -> FloatV(IF val.b THEN 1 ELSE 0, 0)
           [] OTHER -> CastError
    ELSE IF p_type = <<"bool">>
    THEN CASE val.kind = "str" -> BoolV(val.s # <<>>)
           [] val.kind = "int" -> BoolV(val.n # 0)
           [] val.kind = "bool" -> val
           [] OTHER -> CastError
    ELSE IF p_type[1] = "list"
    THEN IF val.kind = "str" THEN ListV([i \in 1..Len(val.s) |-> StrV(<<val.s[i]>>)])
         ELSE CastError
    ELSE IF p_type = <<"dict">> /\ val = StrV(<<>>)
    THEN [Blank EXCEPT !.kind = "dict"]
    ELSE CastError

\* the value argparse stores for a parameter: the flag's string, or the
\* declared default (None when there is none) when the flag is absent
Absent == <<"absent">>

OptionValue(options, param) ==
    IF options[param.name] = Absent THEN param.default ELSE StrV(options[param.name])

\* one iteration of the loop of DynamicCeleryCommand.handle
DynamicValue(param, val) ==
    IF val # NoneV /\ param.annotation # NoHint THEN Construct(param.annotation, val)
    ELSE val

\* the call handed to task_obj.delay once the loop is through
DynamicDelay(task_obj, final_kwargs) ==
    IF \E k \in DOMAIN final_kwargs : IsError(final_kwargs[k])
    THEN [NoLast EXCEPT !.outcome = "CastError"]
    ELSE [NoLast EXCEPT !.outcome = "ok", !.submitted = TRUE,
                        !.task = task_obj, !.final_kwargs = final_kwargs]

\* DynamicCeleryCommand.handle of the command registered as entry
DynamicHandle(entry, options) ==
    DynamicDelay(entry.task_obj,
                 [k \in {entry.task_info.params[i].name :
                           i \in 1..Len(entry.task_info.params)} |->
                    DynamicValue(ParamNamed(entry.task_info.params, k),
                                 OptionValue(options, ParamNamed(entry.task_info.params, k)))])

(***************************************************************************)
(* The job registry and the command lines the process is started with      *)
(***************************************************************************)
Name_add == <<"a", "d", "d">>
Name_lambda == <<"<", "l", "a", "m", "b", "d", "a", ">">>
Name_a_add == <<"a", ".", "a", "d", "d">>
Name_B_add == <<"B", ".", "a", "d", "d">>
Name_z_f == <<"z", ".", "f">>
Name_n_r == <<"n", ".", "r">>

\* a.add: def add(a: int, b: List[int] = None) -> int
Task_a_add ==
    Task(Name_a_add, Name_add, TRUE,
         <<Param(Name_a, <<"int">>, Empty), Param(Name_b, <<"List", "int">>, NoneV)>>,
         <<"int">>, <<"A", "d", "d">>)

\* B.add: def add(a: bool = False)
Task_B_add ==
    Task(Name_B_add, Name_add, TRUE,
         <<Param(Name_a, <<"bool">>, BoolV(FALSE))>>, NoHint, <<>>)

\* z.f: lambda b="x": ...
Task_z_f ==
    Task(Name_z_f, Name_lambda, TRUE,
         <<Param(Name_b, NoHint, StrV(<<"x">>))>>, NoHint, <<>>)

\* n.r: a registry entry without a run attribute
Task_n_r == Task(Name_n_r, <<"r">>, FALSE, <<>>, NoHint, <<>>)

TaskPool == {Task_a_add, Task_B_add, Task_z_f, Task_n_r}

RECURSIVE Registries(_)
Registries(n) ==
    IF n = 0 THEN {<<>>}
    ELSE LET shorter == Registries(n - 1)
         IN shorter \cup
            UNION {{Append(ts, t) : t \in {u \in TaskPool : u.name \notin TaskNames(ts)}}
                   : ts \in shorter}

RECURSIVE SeqsUpTo(_, _)
SeqsUpTo(S, n) ==
    IF n = 0 THEN {<<>>}
    ELSE LET shorter == SeqsUpTo(S, n - 1)
         IN shorter \cup {Append(q, x) : q \in shorter, x \in S}

ArgValues == {<<"1">>, <<"a", "b", "c">>, <<"1", ",", " ", "2">>}

KwargTokens ==
    {<<"a", "=", "1">>, <<"b", "=", "1", "=", "2">>,
     <<"f", "o", "o">>, <<"r", "e", "t", "u", "r", "n", "=", "x">>, <<"c", "=">>}

FlagValues ==
    {<<"4", "2">>, <<"f", "a", "l", "s", "e">>, <<"1", ",", "2">>, <<"a", "b", "c">>}

UnknownTaskName == <<"n", "o", ".", "t", "a", "s", "k">>

\* what argparse accepts for the generated command: every required flag given
OptionsFor(params) ==
    {o \in [{params[i].name : i \in 1..Len(params)} -> FlagValues \cup {Absent}] :
       \A i \in 1..Len(params) : params[i].required => o[params[i].name] # Absent}

(***************************************************************************)
(* The process: Django starts, ready() runs, one command is handled        *)
(***************************************************************************)
Init ==
    /\ phase = "boot"
    /\ tasks \in Registries(MaxTasks)
    /\ commands = <<>>
    /\ calls = 0
    /\ last = NoLast
    /\ cast = NoCast
    /\ sig = NoSig

\* DjangoCeleryCommandsConfig.ready
Ready ==
    /\ phase = "boot"
    /\ commands' = ReadyLoop(commands, tasks, 1).commands
    /\ phase' = IF ReadyLoop(commands, tasks, 1).ok THEN "ready" ELSE "failed"
    /\ UNCHANGED <<tasks, calls, last, cast, sig>>

\* Command.handle without a task name
HandleList ==
    /\ phase = "ready"
    /\ \E task_name \in {NoneV, StrV(<<>>)},
          args \in SeqsUpTo(ArgValues, MaxArgs),
          kwargs \in SeqsUpTo(KwargTokens, MaxKwargs) :
          last' = [NoLast EXCEPT !.op = "list", !.outcome = "ok",
                                 !.task_name = task_name, !.args = args,
                                 !.kwargs = kwargs, !.listing = ListAllTasks(tasks)]
    /\ phase' = "done"
    /\ UNCHANGED <<tasks, commands, calls, cast, sig>>

\* Command.handle with a task name
HandleInvoke ==
    /\ phase = "ready"
    /\ \E task_name \in TaskNames(tasks) \cup {UnknownTaskName},
          args \in SeqsUpTo(ArgValues, MaxArgs),
          kwargs \in SeqsUpTo(KwargTokens, MaxKwargs) :
          /\ last' = [RunTask(tasks, task_name, args, kwargs) EXCEPT
                        !.op = "invoke", !.task_name = StrV(task_name),
                        !.args = args, !.kwargs = kwargs]
          /\ calls' = IF last'.submitted THEN calls + 1 ELSE calls
    /\ phase' = "done"
    /\ UNCHANGED <<tasks, commands, cast, sig>>

\* DynamicCeleryCommand.handle of one registered command
HandleDynamic ==
    /\ phase = "ready"
    /\ \E command \in DOMAIN commands :
         \E options \in OptionsFor(commands[command].task_info.params) :
            /\ last' = [DynamicHandle(commands[command], options) EXCEPT
                          !.op = "dynamic", !.command = command, !.options = options]
            /\ calls' = IF last'.submitted THEN calls + 1 ELSE calls
    /\ phase' = "done"
    /\ UNCHANGED <<tasks, commands, cast, sig>>

Next == Ready \/ HandleList \/ HandleInvoke \/ HandleDynamic

Spec == Init /\ [][Next]_vars

(***************************************************************************)
(* Specification of the caster on its own                                  *)
(***************************************************************************)
InitCast ==
    /\ phase = "unit"
    /\ tasks = <<>>
    /\ commands = <<>>
    /\ calls = 0
    /\ last = NoLast
    /\ sig = NoSig
    /\ \E value \in RawValues, annotation \in Annotations :
          cast = [NoCast EXCEPT !.value = value, !.annotation = annotation]

CastValueCall ==
    /\ phase = "unit"
    /\ ~cast.done
    /\ cast' = [cast EXCEPT !.done = TRUE,
                            !.result = CastValue(cast.value, cast.annotation)]
    /\ UNCHANGED <<phase, tasks, commands, calls, last, sig>>

NextCast == CastValueCall

SpecCast == InitCast /\ [][NextCast]_vars

(***************************************************************************)
(* Specification of the signature introspector on its own                  *)
(***************************************************************************)
InitSig ==
    /\ phase = "unit"
    /\ tasks = <<>>
    /\ commands = <<>>
    /\ calls = 0
    /\ last = NoLast
    /\ cast = NoCast
    /\ \E params \in ParamLists(MaxParams), returns \in {NoHint, <<"int">>} :
          sig = [NoSig EXCEPT !.params = params, !.returns = returns]

ParseTaskSignatureCall ==
    /\ phase = "unit"
    /\ ~sig.done
    /\ sig' = [sig EXCEPT
                 !.done = TRUE,
                 !.result = ParseTaskSignature(
                     Task(Name_f, Name_f, TRUE, sig.params, sig.returns, <<>>)).params]
    /\ UNCHANGED <<phase, tasks, commands, calls, last, cast>>

NextSig == ParseTaskSignatureCall

SpecSig == InitSig /\ [][NextSig]_vars

C1_PrimitiveCast ==
    cast.done =>
      /\ cast.annotation = <<"int">> =>
            IF PyInt(cast.value).ok
            THEN cast.result.kind = "int" /\ cast.result.n = PyInt(cast.value).n
            ELSE cast.result = CastError
      /\ cast.annotation = <<"float">> =>
            IF PyFloat(cast.value).ok
            THEN cast.result.kind = "float" /\ cast.result = PyFloat(cast.value).v
            ELSE cast.result = CastError
      /\ cast.annotation = <<"bool">> =>
            /\ Lower(cast.value) \in TrueTokens => cast.result = BoolV(TRUE)
            /\ Lower(cast.value) \in FalseTokens => cast.result = BoolV(FALSE)
            /\ Lower(cast.value) \notin TrueTokens \cup FalseTokens =>
                  cast.result = CastError

C1_Witness ==
    /\ cast.done
    /\ cast.annotation = <<"bool">>
    /\ cast.value = <<"m", "a", "y", "b", "e">>
    /\ cast.result = CastError

NumCommas(s) == Cardinality({i \in 1..Len(s) : s[i] = ","})

\* C5: for list-of(T) with T primitive the raw string is split on ',', each
\* element is trimmed and cast against T, and the results come back in
\* order, commas + 1 of them; one failing element fails the whole cast.
C5_ListCast ==
    (cast.done /\ OriginIsList(cast.annotation)
       /\ TypeArgs(cast.annotation) \in Primitives) =>
      LET T == TypeArgs(cast.annotation)
          parts == Split(cast.value, ",")
          elems == [i \in 1..Len(parts) |-> CastValue(Strip(parts[i]), T)]
      IN /\ Len(parts) = NumCommas(cast.value) + 1
         /\ IF \E i \in 1..Len(parts) : IsError(elems[i])
            THEN cast.result = CastError
            ELSE /\ cast.result.kind = "list"
                 /\ Len(cast.result.l) = NumCommas(cast.value) + 1
                 /\ \A i \in 1..Len(parts) : cast.result.l[i] = elems[i]

C5_Witness ==
    /\ cast.done
    /\ cast.annotation = <<"List", "int">>
    /\ cast.value = <<"1", ",", " ", "2", ",", "3">>
    /\ cast.result = ListV(<<IntV(1), IntV(2), IntV(3)>>)

\* the declared types the caster has no rule for
IsPassThroughType(annotation) ==
    \/ annotation = NoHint
    \/ annotation = <<"str">>
    \/ /\ annotation \notin Primitives
       /\ ~(OriginIsList(annotation) /\ TypeArgs(annotation) # <<>>)

\* C6: with no declared type, with str, and with any declared type other
\* than int, float, bool and list-of(T), the cast returns the raw string
\* unchanged and never fails.
C6_PassThrough ==
    (cast.done /\ IsPassThroughType(cast.annotation)) =>
      cast.result = StrV(cast.value)

C6_Witness ==
    /\ cast.done
    /\ cast.annotation = <<"Union">>
    /\ cast.value = <<"4", "2">>
    /\ cast.result = StrV(<<"4", "2">>)

(***************************************************************************)
(* Claims about the process (checked under Spec)                           *)
(***************************************************************************)
Errors == {"NotFoundError", "FormatError", "CastError"}

GivenFlags(options) == {k \in DOMAIN options : options[k] # Absent}

\* C2: the generated command converts each flag value exactly as the caster
\* does: what it puts in the keyword mapping, or its cast failure, is what
\* cast(raw, declared type) gives.
C2_DynamicCastsLikeCaster ==
    last.op = "dynamic" =>
      LET params == commands[last.command].task_info.params
          expected == [k \in GivenFlags(last.options) |->
                         CastValue(last.options[k], ParamNamed(params, k).annotation)]
      IN IF \E k \in DOMAIN expected : IsError(expected[k])
         THEN last.outcome = "CastError"
         ELSE /\ last.outcome = "ok"
              /\ \A k \in DOMAIN expected : last.final_kwargs[k] = expected[k]

\* C3: after the startup pass every discovered job has its own entry in the
\* command registry under the slug of its fully-qualified name, the entry
\* submits that job, and jobs with distinct name slugs give as many commands.
C3_OneCommandPerJob ==
    phase \in {"ready", "done"} =>
      /\ \A i \in 1..Len(tasks) :
            /\ SlugifyCommandName(tasks[i].name) \in DOMAIN commands
            /\ commands[SlugifyCommandName(tasks[i].name)].task_obj = tasks[i].name
      /\ Cardinality({SlugifyCommandName(tasks[i].name) : i \in 1..Len(tasks)}) = Len(tasks)
            => Cardinality(DOMAIN commands) = Len(tasks)

\* every argument of the last invocation is well-formed and casts
InvokeArgsValid ==
    /\ last.task_name.s \in TaskNames(tasks)
    /\ tasks[TaskNamed(tasks, last.task_name.s)].has_run
    /\ \A i \in 1..Len(last.kwargs) : Find(last.kwargs[i], "=") # 0
    /\ \A i \in 1..Len(last.final_args) : ~IsError(last.final_args[i])
    /\ \A k \in DOMAIN last.final_kwargs : ~IsError(last.final_kwargs[k])

\* C4: an invocation that ends with a NotFoundError, a FormatError or a
\* CastError has made no submission; a submission is made at most once and
\* only when every argument was validated and cast.
C4_NoSubmissionOnError ==
    /\ calls \in {0, 1}
    /\ last.outcome \in Errors => (calls = 0 /\ ~last.submitted)
    /\ calls = 1 =>
         /\ last.outcome = "ok" /\ last.submitted
         /\ last.op = "invoke" =>
              /\ InvokeArgsValid
              /\ Len(last.final_args) = Len(last.args)
              /\ \A i \in 1..Len(last.kwargs) :
                    SplitOnce(last.kwargs[i], "=")[1] \in DOMAIN last.final_kwargs
         /\ last.op = "dynamic" =>
              \A k \in DOMAIN last.final_kwargs : ~IsError(last.final_kwargs[k])

\* --args 1 --kwargs foo on a registered task: FormatError, nothing submitted
C4_Witness ==
    /\ last.op = "invoke"
    /\ last.task_name = StrV(Name_a_add)
    /\ last.args = <<<<"1">>>>
    /\ last.kwargs = <<<<"f", "o", "o">>>>
    /\ last.outcome = "FormatError"
    /\ calls = 0

IsSortedListing(l) == \A i \in 1..Len(l) : \A j \in (i + 1)..Len(l) : LexLess(l[i], l[j])

\* C8: without a job name the generic command outputs every job name of the
\* registry exactly once, in sorted order, submits nothing and leaves the
\* job registry and the command registry as they were, whatever --args and
\* --kwargs come with it.
C8_ListMode ==
    /\ [](last.op = "list" =>
            /\ IsSortedListing(last.listing)
            /\ {last.listing[i] : i \in 1..Len(last.listing)} = TaskNames(tasks)
            /\ Len(last.listing) = Len(tasks)
            /\ calls = 0
            /\ ~last.submitted)
    /\ [][last'.op = "list" =>
            (tasks' = tasks /\ commands' = commands /\ calls' = calls)]_vars

\* listing B.add before a.add for the registry a.add, B.add, with arguments
C8_Witness ==
    /\ last.op = "list"
    /\ tasks = <<Task_a_add, Task_B_add>>
    /\ last.listing = <<Name_B_add, Name_a_add>>
    /\ last.args # <<>>
    /\ last.kwargs # <<>>

\* C9: with k positional values and n parameters the submitted positional
\* list has k elements in order: the i-th is cast against the i-th declared
\* parameter's type for i within the parameters and is the raw string beyond.
C9_PositionalArgs ==
    (last.op = "invoke" /\ last.submitted) =>
      LET params == tasks[TaskNamed(tasks, last.task_name.s)].params
      IN /\ Len(last.final_args) = Len(last.args)
         /\ \A i \in 1..Len(last.args) :
               IF i <= Len(params)
               THEN last.final_args[i] = CastValue(last.args[i], params[i].annotation)
               ELSE last.final_args[i] = StrV(last.args[i])

\* B.add(a: bool) called with --args 1 abc: True, then the raw "abc"
C9_Witness ==
    /\ last.op = "invoke"
    /\ last.submitted
    /\ last.task = Name_B_add
    /\ last.args = <<<<"1">>, <<"a", "b", "c">>>>
    /\ last.final_args = <<BoolV(TRUE), StrV(<<"a", "b", "c">>)>>

\* the declared type of the parameter named key, none when there is no
\* such parameter or it is unannotated
DeclaredType(params, key) ==
    IF HasParam(params, key) THEN ParamNamed(params, key).annotation ELSE NoHint

LastTokenFor(kwargs, key) ==
    kwargs[CHOOSE i \in 1..Len(kwargs) :
             /\ SplitOnce(kwargs[i], "=")[1] = key
             /\ \A j \in (i + 1)..Len(kwargs) : SplitOnce(kwargs[j], "=")[1] # key]

\* C10: each --kwargs token is split once on its first '='; the submitted
\* mapping gives the key the value cast against the declared type of the
\* parameter of that name when there is a typed one, and the raw value
\* otherwise; a token without '=' fails with FormatError.
C10_KeywordArgs ==
    (/\ last.op = "invoke"
     /\ last.task_name.s \in TaskNames(tasks)
     /\ \A i \in 1..Len(last.args) :
           ~IsError(PositionalArgs(last.args,
                                   tasks[TaskNamed(tasks, last.task_name.s)].params,
                                   TypeHints(tasks[TaskNamed(tasks, last.task_name.s)].params,
                                             tasks[TaskNamed(tasks, last.task_name.s)].returns))[i]))
    =>
      LET params == tasks[TaskNamed(tasks, last.task_name.s)].params
          wellFormed == \A i \in 1..Len(last.kwargs) : Find(last.kwargs[i], "=") # 0
          keys == {SplitOnce(last.kwargs[i], "=")[1] : i \in 1..Len(last.kwargs)}
          expected(k) == CastValue(SplitOnce(LastTokenFor(last.kwargs, k), "=")[2],
                                   DeclaredType(params, k))
          castable == \A i \in 1..Len(last.kwargs) :
                         ~IsError(CastValue(SplitOnce(last.kwargs[i], "=")[2],
                                            DeclaredType(params, SplitOnce(last.kwargs[i], "=")[1])))
      IN IF ~wellFormed
         THEN last.outcome \in {"FormatError", "CastError"}
         ELSE IF ~castable
         THEN last.outcome = "CastError"
         ELSE /\ last.submitted
              /\ DOMAIN last.final_kwargs = keys
              /\ \A k \in keys : last.final_kwargs[k] = expected(k)

====
